---- MODULE Spec2Model ----
(***************************************************************************)
(* SSBot: a Telegram relay bot.  Users send receipt photos, the bot        *)
(* forwards them to one connected group; the owner connects/disconnects    *)
(* the group and browses stored receipts by day.                           *)
(*                                                                         *)
(* The repository holds four variants of the bot:                          *)
(*   "db"      src/bot.js 1-318      Supabase settings + receipts tables   *)
(*   "mem"     src/bot.js 320-380    connection kept in memory only        *)
(*   "file"    src/unnamed/part_000  connection kept in connected.json     *)
(*   "fileEsc" src/unnamed/part_001  as "file", captions escaped           *)
(***************************************************************************)
EXTENDS Integers, Sequences, FiniteSets, TLC

VARIABLES
  variant,          \* which of the four programs is running
  connectedGroupId, \* let connectedGroupId (module-level variable)
  store,            \* persisted connection: settings row id=1 / connected.json
  receipts,         \* rows of the receipts table, in insertion order
  slots,            \* handler invocations, in flight or finished (one record per slot)
  clock,            \* index into Instants: the wall clock read by moment()
  nextPhoto,        \* file_id of the next photo event
  fwdDisabled,      \* history: a save(null) succeeded and no connect has assigned the group since
  discWindow,       \* history: a disconnect command returned from save(null), no connect called since
  text,             \* input of escapeMarkdown
  escaped,          \* result of escapeMarkdown: [called, out]
  proc,             \* the process: [phase, load (outcome of the startup load), boots]
  lastSave          \* history: what the last save stored, if it ran alone and succeeded

vars == <<variant, connectedGroupId, store, receipts, slots, clock, nextPhoto,
          fwdDisabled, discWindow, text, escaped, proc, lastSave>>

(***************************************************************************)
(* Bounds of the model.                                                    *)
(***************************************************************************)
MaxPhotos == 2
MaxLen == 2
MaxRestarts == 1
MaxRows == 4

Null == "<null>"
NoRow == "<no row>"
Variants == {"db", "mem", "file", "fileEsc"}
Groups == {"g1"}
SlotOrder == <<"h1", "h2">>
Slots == {SlotOrder[i] : i \in 1..Len(SlotOrder)}

OWNER_ID == 1
Users == {OWNER_ID, OWNER_ID + 1}
\* the senders of photos: an end user
PhotoSenders == Users \ {OWNER_ID}

Range(s) == {s[i] : i \in 1..Len(s)}

(***************************************************************************)
(* Calendar arithmetic of moment / moment-timezone.  Instants are          *)
(* milliseconds since BaseDay 00:00 UTC.  Asia/Yangon is UTC+06:30, no DST.*)
(***************************************************************************)
MsPerDay == 24 * 60 * 60 * 1000
TzOffsetMs == (6 * 60 + 30) * 60 * 1000

\* days since 1970-01-01 of the proleptic Gregorian date y-m-d
DaysFromCivil(y, m, d) ==
  LET yy  == IF m <= 2 THEN y - 1 ELSE y
      era == yy \div 400
      yoe == yy - era * 400
      mp  == IF m > 2 THEN m - 3 ELSE m + 9
      doy == (153 * mp + 2) \div 5 + d - 1
      doe == yoe * 365 + yoe \div 4 - yoe \div 100 + doy
  IN  era * 146097 + doe - 719468

\* <<year, month, day>> of the day number z (days since 1970-01-01)
CivilFromDays(z) ==
  LET zz  == z + 719468
      era == zz \div 146097
      doe == zz - era * 146097
      yoe == (doe - doe \div 1460 + doe \div 36524 - doe \div 146096) \div 365
      doy == doe - (365 * yoe + yoe \div 4 - yoe \div 100)
      mp  == (5 * doy + 2) \div 153
      d   == doy - (153 * mp + 2) \div 5 + 1
      m   == IF mp < 10 THEN mp + 3 ELSE mp - 9
      y   == yoe + era * 400
  IN  <<IF m <= 2 THEN y + 1 ELSE y, m, d>>

BaseDay == DaysFromCivil(2023, 12, 31)

\* the instant of the UTC wall time y-m-d h:mi:s.ms
UtcInstant(y, m, d, h, mi, s, ms) ==
  (DaysFromCivil(y, m, d) - BaseDay) * MsPerDay
    + ((h * 60 + mi) * 60 + s) * 1000 + ms

\* moment#toISOString: the UTC fields <<Y, M, D, h, m, s, ms>> of an instant
ToISOString(t) ==
  LET ymd == CivilFromDays(BaseDay + t \div MsPerDay)
      r   == t % MsPerDay
  IN  <<ymd[1], ymd[2], ymd[3], r \div 3600000, (r \div 60000) % 60,
        (r \div 1000) % 60, r % 1000>>

\* moment(isoString): the instant an ISO timestamp denotes
MomentParse(iso) ==
  UtcInstant(iso[1], iso[2], iso[3], iso[4], iso[5], iso[6], iso[7])

\* moment(x).tz("Asia/Yangon").format("DD/MM/YY"): <<DD, MM, YY>>
\* fault variant of FormatDay: the day rendered in UTC, .tz("Asia/Yangon") left out
FormatDayInUtc(t) ==
  LET ymd == CivilFromDays(BaseDay + t \div MsPerDay)
  IN  <<ymd[3], ymd[2], ymd[1] % 100>>

FormatDay(t) ==
  LET ymd == CivilFromDays(BaseDay + (t + TzOffsetMs) \div MsPerDay)
  IN  <<ymd[3], ymd[2], ymd[1] % 100>>

\* moment's two-digit year rule (parseTwoDigitYear)
ParseTwoDigitYear(yy) == IF yy > 68 THEN 1900 + yy ELSE 2000 + yy

\* moment.tz(dateStr, "DD/MM/YY", "Asia/Yangon").startOf("day")
StartOfDay(key) ==
  (DaysFromCivil(ParseTwoDigitYear(key[3]), key[2], key[1]) - BaseDay) * MsPerDay
    - TzOffsetMs

\* moment.tz(dateStr, "DD/MM/YY", "Asia/Yangon").endOf("day"): 23:59:59.999
\* fault variant of EndOfDay: the bound put at the next midnight
EndOfDayNextMidnight(key) == StartOfDay(key) + MsPerDay

EndOfDay(key) == StartOfDay(key) + MsPerDay - 1


(***************************************************************************)
(* Sample instants the wall clock passes through: both sides of local      *)
(* midnight, where the UTC day and the Asia/Yangon day differ.             *)
(***************************************************************************)
Instants ==
  << UtcInstant(2023, 12, 31, 17, 29, 59, 999),  \* 31/12/23 23:59:59.999 local
     UtcInstant(2023, 12, 31, 17, 30, 0, 0),     \* 01/01/24 00:00:00.000 local
     UtcInstant(2024, 1, 4, 17, 29, 59, 999),    \* 04/01/24 23:59:59.999 local
     UtcInstant(2024, 1, 4, 17, 30, 0, 0),       \* 05/01/24 00:00:00.000 local
     UtcInstant(2024, 1, 5, 3, 30, 0, 0),        \* 05/01/24 10:00:00.000 local
     UtcInstant(2024, 1, 5, 17, 29, 59, 999),    \* 05/01/24 23:59:59.999 local
     UtcInstant(2024, 1, 5, 17, 30, 0, 0) >>     \* 06/01/24 00:00:00.000 local

(***************************************************************************)
(* escapeMarkdown.  A text is a sequence of one-character strings.         *)
(***************************************************************************)
\* the grave accent character (U+0060), written by name
Backtick == "grave"

\* the character class of the regular expression, src/bot.js line 72
EscapeClassDb ==
  {"_", "*", "[", "]", "(", ")", "~", Backtick, ">", "#", "+", "-", "=", "|",
   "{", "}", ".", "!", "\\"}

\* the character class of the regular expression, src/unnamed/part_001 line 28
EscapeClassFileEsc ==
  {"_", "*", "(", ")", "~", Backtick, ">", "#", "+", "-", "=", "|",
   "{", "}", ".", "!", "\\"}

\* the characters a text may hold: the ones either class names, and a letter
Alphabet == EscapeClassDb \cup EscapeClassFileEsc \cup {"[", "]", "a"}

EscapeClass(v) == IF v = "db" THEN EscapeClassDb ELSE EscapeClassFileEsc

RECURSIVE ReplaceAll(_, _)
ReplaceAll(t, class) ==
  IF t = <<>> THEN <<>>
  ELSE (IF Head(t) \in class THEN <<"\\", Head(t)>> ELSE <<Head(t)>>)
         \o ReplaceAll(Tail(t), class)

\* escapeMarkdown(text) of variant v: "" for a falsy text
escapeMarkdown(v, t) ==
  IF t = <<>> THEN <<>> ELSE ReplaceAll(t, EscapeClass(v))

EscapingVariants == {"db", "fileEsc"}

(***************************************************************************)
(* Fields of an invocation record: kind, from (sender id), arg (the        *)
(* /connectgp argument), date (the button's day label), pc (where the      *)
(* handler is suspended), obs (connectedGroupId as the photo handler's     *)
(* check read it), photo (file_id), at (moment() of the photo handler),    *)
(* ins (outcome of the receipts insert), success (result of saveConnection *)
(* or of the date query), seen (number of receipts rows a select read),    *)
(* keys (uniqueDates), kbd (the rows of the inline keyboard), rows (data of *)
(* the date query), fwd (outcome of the db variant's sendPhoto), out (the  *)
(* Telegram calls made, in order), uncaught (an error left the handler).   *)
(***************************************************************************)

(***************************************************************************)
(* Handler invocations.  Telegraf starts a handler per update; a handler   *)
(* runs until its next await and resumes when the awaited call settles.    *)
(* The record of a finished invocation is kept, for observation, until its *)
(* slot is reused or another invocation finishes.                          *)
(***************************************************************************)
Args == {""} \cup Groups

Idle ==
  [kind |-> "none", from |-> 0, arg |-> Null, date |-> <<>>, pc |-> "idle",
   obs |-> Null, photo |-> 0, at |-> 0, ins |-> "none", success |-> "none",
   seen |-> 0, keys |-> <<>>, kbd |-> <<>>, rows |-> <<>>, fwd |-> "none",
   out |-> <<>>, uncaught |-> FALSE]

New(kind, u) == [Idle EXCEPT !.kind = kind, !.from = u]

Free(s) == slots[s].pc \in {"idle", "done"}

\* a new invocation takes the first slot that holds none in flight
Takes(s) ==
  /\ Free(s)
  /\ \A i, j \in 1..Len(SlotOrder) : (SlotOrder[j] = s /\ i < j) => ~Free(SlotOrder[i])

Put(s, h) ==
  slots' = [t \in Slots |->
              IF t = s THEN h
              ELSE IF h.pc = "done" /\ slots[t].pc = "done" THEN Idle
              ELSE slots[t]]

\* an outbound Telegram call
Out(op, to, tag, photo) == [op |-> op, to |-> to, tag |-> tag, photo |-> photo]
Reply(tag) == Out("reply", "sender", tag, 0)

Done(h) == [h EXCEPT !.pc = "done"]

\* the handler throws (or its returned promise rejects) outside any try/catch
Throw(h) == [h EXCEPT !.pc = "done", !.uncaught = TRUE]

\* a call is made and awaited (or returned): the handler goes on at pc
Issue(h, o, pc) == [h EXCEPT !.pc = pc, !.out = Append(h.out, o)]

\* the handler's last call, outside try/catch: made, then the handler ends
\* normally (ok) or with the call's rejection
Last(h, o, ok) == IF ok THEN Issue(h, o, "done") ELSE Throw(Issue(h, o, "done"))

\* ctx.from.id === OWNER_ID (isOwner middleware / inline owner check)
\* fault variant of isOwner: every sender passes
isOwnerAnyone(u) == TRUE

isOwner(u) == u = OWNER_ID

\* the handlers each variant registers
Registered(v, kind) ==
  CASE kind \in {"connectgp", "disconnect", "photo"} -> TRUE
    [] kind = "start" -> v # "mem"
    [] OTHER -> v = "db"

\* !connectedGroupId
\* fault variant of NotConnected: the connected check left out
NotConnectedNever(g) == FALSE

NotConnected(g) == g = Null \/ g = ""

\* saveConnection (db): the in-memory value once the upsert has settled
\* fault variant of MemAfterSave: the assignment made before the error check
MemAfterSaveAlways(old, groupId, ok) == groupId

MemAfterSave(old, groupId, ok) == IF ok THEN groupId ELSE old

\* if (error) throw error, after the receipts insert
\* fault variant of InsertFailed: the error of the insert ignored
InsertFailedNever(res) == FALSE

InsertFailed(res) == res # "ok"

(***************************************************************************)
(* The process and the history of saves.  The process is "loading" (the    *)
(* module body runs up to bot.launch()), "running" (launched, handling     *)
(* updates) or "crashed" (an exception left the module body).              *)
(***************************************************************************)
Unreadable == "<unreadable>"
PersistingVariants == {"db", "file", "fileEsc"}

\* launched with nothing to load
Launched == [phase |-> "running", load |-> "absent", boots |-> 0]

Unsettled == [val |-> "<unsettled>", boot |-> 0]

SaveInFlight == \E s \in Slots : slots[s].pc \in {"save_sent", "save_applied"}

\* saveConnection (db) is called: the upsert is pending, alone or not
SaveCalled ==
  IF SaveInFlight THEN Unsettled ELSE [val |-> "<pending>", boot |-> proc.boots]

\* saveConnection (db) returns ok for groupId
SaveSettled(groupId, ok) ==
  IF lastSave.val # "<pending>" THEN lastSave
  ELSE IF ok THEN [lastSave EXCEPT !.val = groupId]
  ELSE Unsettled

\* saveConnection (file variants): writeFileSync returned (ok) or threw
FileSaved(groupId, ok) ==
  IF ok THEN [val |-> groupId, boot |-> proc.boots] ELSE Unsettled

\* fs.writeFileSync(DATA_FILE, ...): it returns, or throws before the file
\* is opened, or throws after the file was truncated (file size limit,
\* full disk)
FileWrites == {"ok", "failed", "truncated"}

\* connected.json after the write
AfterWrite(old, groupId, wr) ==
  CASE wr = "ok" -> groupId
    [] wr = "failed" -> old
    [] OTHER -> Unreadable

(***************************************************************************)
(* /connectgp                                                              *)
(***************************************************************************)
ConnectgpStart(s) ==
  /\ Takes(s)
  /\ \E u \in Users, a \in Args :
       LET h == [New("connectgp", u) EXCEPT !.arg = a] IN
       IF ~isOwner(u) THEN
         /\ Put(s, Done(h))
         /\ UNCHANGED <<connectedGroupId, store, fwdDisabled, discWindow, lastSave>>
       ELSE IF a = "" THEN
         /\ \E ok \in BOOLEAN : Put(s, Last(h, Reply("usage"), ok))
         /\ UNCHANGED <<connectedGroupId, store, fwdDisabled, discWindow, lastSave>>
       ELSE IF variant = "db" THEN
         \* saveConnection(args): the upsert is sent and awaited
         /\ Put(s, [h EXCEPT !.pc = "save_sent"])
         /\ discWindow' = FALSE
         /\ lastSave' = SaveCalled
         /\ UNCHANGED <<connectedGroupId, store, fwdDisabled>>
       ELSE IF variant = "mem" THEN
         /\ connectedGroupId' = a
         /\ \E ok \in BOOLEAN : Put(s, Last(h, Reply("connected"), ok))
         /\ fwdDisabled' = FALSE
         /\ discWindow' = FALSE
         /\ UNCHANGED <<store, lastSave>>
       ELSE
         \* connectedGroupId = args; saveConnection(args) with writeFileSync,
         \* which may throw
         /\ connectedGroupId' = a
         /\ \E wr \in FileWrites :
              /\ lastSave' = FileSaved(a, wr = "ok")
              /\ store' = AfterWrite(store, a, wr)
              /\ IF wr = "ok"
                 THEN \E ok \in BOOLEAN : Put(s, Last(h, Reply("connected"), ok))
                 ELSE Put(s, Throw(h))
         /\ fwdDisabled' = FALSE
         /\ discWindow' = FALSE
  /\ UNCHANGED <<variant, proc, receipts, clock, nextPhoto, text, escaped>>

(***************************************************************************)
(* /disconnect (/disconnectgp in the "mem" variant)                        *)
(***************************************************************************)
DisconnectStart(s) ==
  /\ Takes(s)
  /\ \E u \in Users :
       LET h == New("disconnect", u) IN
       IF ~isOwner(u) THEN
         /\ Put(s, Done(h))
         /\ UNCHANGED <<connectedGroupId, store, fwdDisabled, discWindow, lastSave>>
       ELSE IF variant = "db" THEN
         \* saveConnection(null): the upsert is sent and awaited
         /\ Put(s, [h EXCEPT !.pc = "save_sent"])
         /\ lastSave' = SaveCalled
         /\ UNCHANGED <<connectedGroupId, store, fwdDisabled, discWindow>>
       ELSE IF variant = "mem" THEN
         /\ connectedGroupId' = Null
         /\ \E ok \in BOOLEAN : Put(s, Last(h, Reply("disconnected"), ok))
         /\ fwdDisabled' = TRUE
         /\ discWindow' = TRUE
         /\ UNCHANGED <<store, lastSave>>
       ELSE
         /\ connectedGroupId' = Null
         /\ \E wr \in FileWrites :
              /\ lastSave' = FileSaved(Null, wr = "ok")
              /\ store' = AfterWrite(store, Null, wr)
              /\ fwdDisabled' = IF wr = "ok" THEN TRUE ELSE fwdDisabled
              /\ IF wr = "ok"
                 THEN \E ok \in BOOLEAN : Put(s, Last(h, Reply("disconnected"), ok))
                 ELSE Put(s, Throw(h))
         /\ discWindow' = TRUE
  /\ UNCHANGED <<variant, proc, receipts, clock, nextPhoto, text, escaped>>

(***************************************************************************)
(* saveConnection (db): the settings store applies the upsert, then the    *)
(* awaited call settles and the command handler replies.                   *)
(***************************************************************************)
SaveApply(s) ==
  /\ slots[s].pc = "save_sent"
  /\ store' = slots[s].arg
  /\ Put(s, [slots[s] EXCEPT !.pc = "save_applied"])
  /\ UNCHANGED <<variant, proc, lastSave, connectedGroupId, receipts, clock, nextPhoto,
                 fwdDisabled, discWindow, text, escaped>>

SaveReturn(s) ==
  /\ slots[s].pc \in {"save_sent", "save_applied"}
  /\ \E res \in BOOLEAN, ok \in BOOLEAN :
       LET h    == slots[s]
           conn == h.kind = "connectgp"
       IN
       \* a success response needs the write applied; an error result or a
       \* thrown exception can come with or without it
       /\ res => h.pc = "save_applied"
       /\ connectedGroupId' = MemAfterSave(connectedGroupId, h.arg, res)
       /\ lastSave' = SaveSettled(h.arg, res)
       /\ Put(s, Last([h EXCEPT !.success = IF res THEN "true" ELSE "false"],
                      Reply(IF conn THEN (IF res THEN "connected" ELSE "save_failed")
                            ELSE (IF res THEN "disconnected" ELSE "disconnect_failed")),
                      ok))
       /\ fwdDisabled' = IF res THEN ~conn ELSE fwdDisabled
       /\ discWindow' = IF conn THEN discWindow ELSE TRUE
  /\ UNCHANGED <<variant, proc, store, receipts, clock, nextPhoto, text, escaped>>


(***************************************************************************)
(* /help and /start                                                        *)
(***************************************************************************)
Help(s) ==
  /\ Takes(s)
  /\ \E u \in Users :
       LET h == New("help", u) IN
       IF ~Registered(variant, "help") \/ ~isOwner(u) THEN Put(s, Done(h))
       ELSE \E ok \in BOOLEAN : Put(s, Last(h, Reply("help"), ok))
  /\ UNCHANGED <<variant, proc, lastSave, connectedGroupId, store, receipts, clock, nextPhoto,
                 fwdDisabled, discWindow, text, escaped>>

Start(s) ==
  /\ Takes(s)
  /\ \E u \in Users :
       LET h == New("start", u) IN
       IF ~Registered(variant, "start") THEN Put(s, Done(h))
       ELSE \E ok \in BOOLEAN : Put(s, Last(h, Reply("start"), ok))
  /\ UNCHANGED <<variant, proc, lastSave, connectedGroupId, store, receipts, clock, nextPhoto,
                 fwdDisabled, discWindow, text, escaped>>

(***************************************************************************)
(* bot.on("photo")                                                         *)
(***************************************************************************)
ReceiptRow(h) ==
  [user_id |-> h.from, receipt_file_id |-> h.photo,
   received_at |-> ToISOString(h.at)]

\* supabase.from("receipts").insert(row): the table gains the row
\* fault variant of StoreInsert: the row written over the table
StoreInsertReplacing(rs, r) == <<r>>

StoreInsert(rs, r) == Append(rs, r)

\* ctx.telegram.sendPhoto(connectedGroupId, photo, ...): the destination is
\* the module variable as it is when the call is made
SendPhoto(h) == Out("sendPhoto", connectedGroupId, "caption", h.photo)

\* the try block of the db variant once the awaited sendPhoto has settled:
\* the acknowledgement follows a forward that succeeded; a rejection is
\* caught and logged, and the handler ends
\* fault variant of AfterForward: a failed forward is sent once more
AfterForwardRetried(h, ok) ==
  IF ok THEN Issue([h EXCEPT !.fwd = "ok"], Reply("ack"), "done")
  ELSE Issue([h EXCEPT !.fwd = "failed"], SendPhoto(h), "done")

AfterForward(h, ok) ==
  IF ok THEN Issue([h EXCEPT !.fwd = "ok"], Reply("ack"), "done")
  ELSE Done([h EXCEPT !.fwd = "failed"])

PhotoStart(s) ==
  /\ Takes(s)
  /\ nextPhoto <= MaxPhotos
  /\ \E u \in PhotoSenders :
       LET h == [New("photo", u) EXCEPT
                   !.photo = nextPhoto, !.at = Instants[clock],
                   !.obs = connectedGroupId]
       IN
       IF NotConnected(connectedGroupId) THEN
         \* return ctx.reply(...): a rejection leaves the handler
         \E ok \in BOOLEAN : Put(s, Last(h, Reply("not_connected"), ok))
       ELSE IF variant = "db" THEN
         \* supabase.from("receipts").insert(...) is sent and awaited
         Put(s, [h EXCEPT !.pc = "insert"])
       ELSE IF variant = "mem" THEN
         \* sendPhoto inside try/catch; no acknowledgement in this variant
         Put(s, Issue(h, SendPhoto(h), "done"))
       ELSE
         \* the acknowledgement is awaited first, inside the try block
         Put(s, Issue(h, Reply("ack"), "ack"))
  /\ nextPhoto' = nextPhoto + 1
  /\ UNCHANGED <<variant, proc, lastSave, connectedGroupId, store, receipts, clock,
                 fwdDisabled, discWindow, text, escaped>>

\* the receipts table applies the insert the handler is awaiting
InsertApply(s) ==
  /\ slots[s].pc = "insert"
  /\ receipts' = StoreInsert(receipts, ReceiptRow(slots[s]))
  /\ Put(s, [slots[s] EXCEPT !.pc = "insert_applied"])
  /\ UNCHANGED <<variant, proc, lastSave, connectedGroupId, store, clock, nextPhoto,
                 fwdDisabled, discWindow, text, escaped>>

PhotoResume(s) ==
  /\ slots[s].pc \in {"insert", "insert_applied", "sendPhoto", "ack"}
  /\ LET h == slots[s] IN
       IF h.pc \in {"insert", "insert_applied"} THEN
         \* a success response needs the row stored; an error result or a
         \* thrown exception can come with or without it
         \E res \in {"ok", "error"} :
           /\ res = "ok" => h.pc = "insert_applied"
           /\ UNCHANGED receipts
           /\ IF InsertFailed(res) THEN
                \E ok \in BOOLEAN :
                  Put(s, Last([h EXCEPT !.ins = "failed"], Reply("insert_error"), ok))
              ELSE
                Put(s, Issue([h EXCEPT !.ins = "stored"], SendPhoto(h), "sendPhoto"))
       ELSE IF h.pc = "sendPhoto" THEN
         \* db: the acknowledgement follows the forward; both inside try/catch
         /\ \E ok \in BOOLEAN : Put(s, AfterForward(h, ok))
         /\ UNCHANGED receipts
       ELSE
         \* file variants: the forward follows the acknowledgement
         /\ \E ok \in BOOLEAN :
              Put(s, IF ok THEN Issue(h, SendPhoto(h), "done") ELSE Done(h))
         /\ UNCHANGED receipts
  /\ UNCHANGED <<variant, proc, lastSave, connectedGroupId, store, clock, nextPhoto,
                 fwdDisabled, discWindow, text, escaped>>

(***************************************************************************)
(* /receipt: the date listing                                              *)
(***************************************************************************)
DateKeyOf(r) == FormatDay(MomentParse(r.received_at))

\* the day labels of the buttons a date listing can have produced
DateArgs == {DateKeyOf(receipts[i]) : i \in 1..Len(receipts)}

RECURSIVE Dedup(_)
\* [...new Set(keys)]: first occurrences, in order
Dedup(q) ==
  IF q = <<>> THEN <<>>
  ELSE LET rest == Dedup(SubSeq(q, 1, Len(q) - 1))
           x    == q[Len(q)]
       IN  IF x \in Range(rest) THEN rest ELSE Append(rest, x)

UniqueDates(rs) == Dedup([i \in 1..Len(rs) |-> DateKeyOf(rs[i])])

\* buttons.slice(i * 3, i * 3 + 3)
Slice(q, from, to) ==
  SubSeq(q, from + 1, IF to < Len(q) THEN to ELSE Len(q))

\* Math.ceil(n / 3)
CeilDiv(n, d) == (n + d - 1) \div d

\* Array.from({ length: Math.ceil(buttons.length / 3) }, (_, i) => slice)
\* fault variant of KeyboardRows: four buttons to a row
KeyboardRowsOfFour(buttons) ==
  [i \in 1..CeilDiv(Len(buttons), 4) |-> Slice(buttons, (i - 1) * 4, (i - 1) * 4 + 4)]

KeyboardRows(buttons) ==
  [i \in 1..CeilDiv(Len(buttons), 3) |-> Slice(buttons, (i - 1) * 3, (i - 1) * 3 + 3)]

\* the rows a select served when h.seen rows were stored read (the table
\* only grows, by appending)
ServedRows(h) == SubSeq(receipts, 1, h.seen)

ReceiptStart(s) ==
  /\ Takes(s)
  /\ \E u \in Users :
       LET h == New("receipt", u) IN
       IF ~Registered(variant, "receipt") \/ ~isOwner(u) THEN Put(s, Done(h))
       ELSE Put(s, [h EXCEPT !.pc = "select"])
  /\ UNCHANGED <<variant, proc, lastSave, connectedGroupId, store, receipts, clock, nextPhoto,
                 fwdDisabled, discWindow, text, escaped>>

\* the receipts table serves the select the handler is awaiting
SelectServe(s) ==
  /\ slots[s].pc = "select"
  /\ Put(s, [slots[s] EXCEPT !.pc = "select_served", !.seen = Len(receipts)])
  /\ UNCHANGED <<variant, proc, lastSave, connectedGroupId, store, receipts, clock, nextPhoto,
                 fwdDisabled, discWindow, text, escaped>>

ReceiptResume(s) ==
  /\ slots[s].pc \in {"select", "select_served", "keyboard"}
  /\ \E res \in BOOLEAN, ok \in BOOLEAN :
       LET h == slots[s] IN
       IF h.pc = "keyboard" THEN
         \* await ctx.reply(..., keyboard) settles: a rejection is caught,
         \* then the error reply
         Put(s, IF res THEN Done(h) ELSE Last(h, Reply("receipt_error"), ok))
       ELSE
         \* data needs the select served; an error result or a thrown
         \* exception can come with or without it
         /\ res => h.pc = "select_served"
         /\ IF ~res THEN
              \* if (error) throw error: caught, then the error reply
              Put(s, Last(h, Reply("receipt_error"), ok))
            ELSE IF ServedRows(h) = <<>> THEN
              \* return ctx.reply(...) inside try: not awaited, not caught
              Put(s, Last(h, Reply("no_receipts"), ok))
            ELSE
              \* the keyboard reply is issued and awaited
              Put(s, Issue([h EXCEPT !.keys = UniqueDates(ServedRows(h)),
                                     !.kbd = KeyboardRows(UniqueDates(ServedRows(h)))],
                           Reply("keyboard"), "keyboard"))
  /\ UNCHANGED <<variant, proc, lastSave, connectedGroupId, store, receipts, clock, nextPhoto,
                 fwdDisabled, discWindow, text, escaped>>


(***************************************************************************)
(* receipt_date_<DD/MM/YY> button: the date detail                         *)
(***************************************************************************)
RECURSIVE InsertAsc(_, _)
InsertAsc(r, q) ==
  IF q = <<>> THEN <<r>>
  ELSE IF MomentParse(r.received_at) <= MomentParse(Head(q).received_at)
       THEN <<r>> \o q
       ELSE <<Head(q)>> \o InsertAsc(r, Tail(q))

RECURSIVE SortAsc(_)
\* .order("received_at", { ascending: true })
SortAsc(q) == IF q = <<>> THEN <<>> ELSE InsertAsc(Head(q), SortAsc(Tail(q)))

\* .gte("received_at", startDate).lte("received_at", endDate)
InRange(r, startDate, endDate) ==
  /\ MomentParse(r.received_at) >= MomentParse(startDate)
  /\ MomentParse(r.received_at) <= MomentParse(endDate)

QueryByDay(rs, key) ==
  LET startDate == ToISOString(StartOfDay(key))
      endDate   == ToISOString(EndOfDay(key))
  IN  SortAsc(SelectSeq(rs, LAMBDA r : InRange(r, startDate, endDate)))

ReceiptDateStart(s) ==
  /\ Takes(s)
  /\ \E u \in Users, d \in DateArgs :
       LET h == [New("receipt_date", u) EXCEPT !.date = d] IN
       IF ~Registered(variant, "receipt_date") \/ ~isOwner(u) THEN Put(s, Done(h))
       ELSE Put(s, Issue(h, Out("answerCbQuery", "sender", "fetching", 0), "answerCb"))
  /\ UNCHANGED <<variant, proc, lastSave, connectedGroupId, store, receipts, clock, nextPhoto,
                 fwdDisabled, discWindow, text, escaped>>

\* ctx.replyWithPhoto(r.receipt_file_id, ...): the message of one row
PhotoMessage(r) == Out("replyWithPhoto", "sender", "info", r.receipt_file_id)

\* the receipts table serves the range query the handler is awaiting
QueryServe(s) ==
  /\ slots[s].pc = "query"
  /\ Put(s, [slots[s] EXCEPT !.pc = "query_served", !.seen = Len(receipts)])
  /\ UNCHANGED <<variant, proc, lastSave, connectedGroupId, store, receipts, clock, nextPhoto,
                 fwdDisabled, discWindow, text, escaped>>

ReceiptDateResume(s) ==
  /\ slots[s].pc \in {"answerCb", "query", "query_served", "replay"}
  /\ \E res \in BOOLEAN, ok \in BOOLEAN :
       LET h == slots[s] IN
       IF h.pc = "answerCb" THEN
         \* await ctx.answerCbQuery(...) stands outside the try block; the
         \* range query is sent next
         Put(s, IF res THEN [h EXCEPT !.pc = "query"] ELSE Throw(h))
       ELSE IF h.pc = "replay" THEN
         \* the awaited header or replyWithPhoto settles: the next row's
         \* photo is sent, or the loop is over; a rejection is caught, then
         \* the error reply
         LET k == Len(h.out) - 2 IN
         Put(s, IF ~res THEN Last(h, Reply("fetch_error"), ok)
                ELSE IF k < Len(h.rows) THEN Issue(h, PhotoMessage(h.rows[k + 1]), "replay")
                ELSE Done(h))
       ELSE
         LET rows == QueryByDay(ServedRows(h), h.date)
             g    == [h EXCEPT !.success = "true", !.rows = rows]
         IN  \* data needs the query served
             /\ res => h.pc = "query_served"
             /\ IF ~res THEN
                  \* if (error) throw error: caught, then the error reply
                  Put(s, Last(h, Reply("fetch_error"), ok))
                ELSE IF rows = <<>> THEN
                  \* return ctx.reply(...) inside try: not awaited, not caught
                  Put(s, Last(g, Reply("none_for_date"), ok))
                ELSE
                  \* the header reply is issued and awaited
                  Put(s, Issue(g, Reply("header"), "replay"))
  /\ UNCHANGED <<variant, proc, lastSave, connectedGroupId, store, receipts, clock, nextPhoto,
                 fwdDisabled, discWindow, text, escaped>>

(***************************************************************************)
(* Startup and restart.  The module body loads the persisted connection    *)
(* and then calls bot.launch(); no update is handled before that.          *)
(***************************************************************************)
\* connectedGroupId after a read that succeeded: data.connected_group_id
\* whenever there is a row (db); saved.groupId when it is truthy (file)
\* fault variant of LoadedValue: the value read is not assigned
LoadedNothing(v, old, st) == old

LoadedValue(v, old, st) ==
  IF st = NoRow THEN old
  ELSE IF v = "db" THEN st
  ELSE IF st \in {Null, ""} THEN old
  ELSE st

\* how the read of the persisted connection can go: data or file content
\* ("ok"), an error result, a thrown exception; for the file, also a stat
\* that fails, which existsSync reports as no file ("hidden")
LoadOutcomes(v) ==
  IF v = "db" THEN {"ok", "error", "throw"} ELSE {"ok", "throw", "hidden"}

\* loadConnection() followed by bot.launch() (db); the top-level
\* existsSync / readFileSync / JSON.parse followed by bot.launch() (file)
Load ==
  /\ proc.phase = "loading"
  /\ \E res \in LoadOutcomes(variant) :
       IF variant = "db" THEN
         \* an error result or an exception is logged; the bot launches
         /\ proc' = [proc EXCEPT !.phase = "running",
                                 !.load = IF res # "ok" THEN "failed"
                                          ELSE IF store = NoRow THEN "absent"
                                          ELSE "ok"]
         /\ connectedGroupId' = IF res = "ok"
                                THEN LoadedValue(variant, connectedGroupId, store)
                                ELSE connectedGroupId
       ELSE IF store = NoRow \/ res = "hidden" THEN
         \* fs.existsSync(DATA_FILE) is false (no file, or its stat fails):
         \* nothing is read
         /\ proc' = [proc EXCEPT !.phase = "running", !.load = "absent"]
         /\ UNCHANGED connectedGroupId
       ELSE IF res # "ok" \/ store = Unreadable THEN
         \* readFileSync or JSON.parse throws at the top level of the module
         /\ proc' = [proc EXCEPT !.phase = "crashed", !.load = "failed"]
         /\ UNCHANGED connectedGroupId
       ELSE
         /\ proc' = [proc EXCEPT !.phase = "running", !.load = "ok"]
         /\ connectedGroupId' = LoadedValue(variant, connectedGroupId, store)
  /\ UNCHANGED <<variant, lastSave, store, receipts, slots, clock, nextPhoto,
                 fwdDisabled, discWindow, text, escaped>>

\* requests the process had sent when it stopped
PendingWrites == {slots[s].arg : s \in {t \in Slots : slots[t].pc = "save_sent"}}
PendingInserts == {ReceiptRow(slots[s]) : s \in {t \in Slots : slots[t].pc = "insert"}}

\* the sequences of distinct rows of a set: the store applies any of the
\* pending inserts, in any order
Arrivals(rows) ==
  {q \in UNION {[1..n -> rows] : n \in 0..Cardinality(rows)} :
     \A i, j \in 1..Len(q) : q[i] = q[j] => i = j}

RECURSIVE InsertAll(_, _)
InsertAll(rs, q) ==
  IF q = <<>> THEN rs ELSE InsertAll(StoreInsert(rs, Head(q)), Tail(q))

\* the process stops and is started again: module state and handlers in
\* flight are gone, a request already sent may still reach the store
Restart ==
  /\ proc.phase # "loading"
  /\ proc.boots < MaxRestarts
  /\ proc' = [phase |-> "loading", load |-> "none", boots |-> proc.boots + 1]
  /\ connectedGroupId' = Null
  /\ slots' = [s \in Slots |-> Idle]
  /\ store' \in {store} \cup PendingWrites
  /\ receipts' \in {InsertAll(receipts, q) : q \in Arrivals(PendingInserts)}
  /\ lastSave' = IF lastSave.val = "<pending>" THEN Unsettled ELSE lastSave
  /\ fwdDisabled' = FALSE
  /\ discWindow' = FALSE
  /\ UNCHANGED <<variant, clock, nextPhoto, text, escaped>>

(***************************************************************************)
(* The wall clock, and the application of escapeMarkdown to a text.        *)
(***************************************************************************)
Tick ==
  /\ clock < Len(Instants)
  /\ clock' = clock + 1
  /\ UNCHANGED <<variant, proc, lastSave, connectedGroupId, store, receipts, slots, nextPhoto,
                 fwdDisabled, discWindow, text, escaped>>

NotEscaped == [called |-> FALSE, out |-> <<>>]

Escape(v) ==
  /\ ~escaped.called
  /\ escaped' = [called |-> TRUE, out |-> escapeMarkdown(v, text)]
  /\ UNCHANGED <<variant, proc, lastSave, connectedGroupId, store, receipts, slots, clock,
                 nextPhoto, fwdDisabled, discWindow, text>>

RECURSIVE Texts(_)
Texts(n) ==
  IF n = 0 THEN {<<>>}
  ELSE LET shorter == Texts(n - 1)
       IN  shorter \cup {Append(t, c) : t \in shorter, c \in Alphabet}

(***************************************************************************)
(* Specifications.                                                         *)
(***************************************************************************)
\* the bot just launched, nothing stored, any of the four variants
Init ==
  /\ variant \in Variants
  /\ connectedGroupId = Null
  /\ store = NoRow
  /\ receipts = <<>>
  /\ slots = [s \in Slots |-> Idle]
  /\ clock = 1
  /\ nextPhoto = 1
  /\ fwdDisabled = FALSE
  /\ discWindow = FALSE
  /\ text = <<>>
  /\ escaped = NotEscaped
  /\ proc = Launched
  /\ lastSave = Unsettled

\* the owner's receipt queries are followed in the first slot
Next ==
  \/ \E s \in Slots :
       \/ ConnectgpStart(s)
       \/ DisconnectStart(s)
       \/ SaveApply(s)
       \/ SaveReturn(s)
       \/ Help(s)
       \/ Start(s)
       \/ PhotoStart(s)
       \/ InsertApply(s)
       \/ PhotoResume(s)
  \/ ReceiptStart(SlotOrder[1])
  \/ SelectServe(SlotOrder[1])
  \/ ReceiptResume(SlotOrder[1])
  \/ ReceiptDateStart(SlotOrder[1])
  \/ QueryServe(SlotOrder[1])
  \/ ReceiptDateResume(SlotOrder[1])

Spec == Init /\ [][Next]_vars

\* the db variant, connected, receiving photos and owner queries as time passes
InitDates ==
  /\ variant = "db"
  /\ connectedGroupId \in Groups
  /\ store = connectedGroupId
  /\ receipts = <<>>
  /\ slots = [s \in Slots |-> Idle]
  /\ clock = 1
  /\ nextPhoto = 1
  /\ fwdDisabled = FALSE
  /\ discWindow = FALSE
  /\ text = <<>>
  /\ escaped = NotEscaped
  /\ proc = Launched
  /\ lastSave = Unsettled

NextDates ==
  \/ Tick
  \/ \E s \in Slots :
       \/ PhotoStart(s)
       \/ InsertApply(s)
       \/ PhotoResume(s)
  \/ ReceiptStart(SlotOrder[1])
  \/ SelectServe(SlotOrder[1])
  \/ ReceiptResume(SlotOrder[1])
  \/ ReceiptDateStart(SlotOrder[1])
  \/ QueryServe(SlotOrder[1])
  \/ ReceiptDateResume(SlotOrder[1])

SpecDates == InitDates /\ [][NextDates]_vars

\* a persisting variant from the start of the process, across restarts
InitBoot ==
  /\ variant \in PersistingVariants
  /\ connectedGroupId = Null
  /\ store \in IF variant = "db" THEN {NoRow} ELSE {NoRow, Unreadable}
  /\ receipts = <<>>
  /\ slots = [s \in Slots |-> Idle]
  /\ clock = 1
  /\ nextPhoto = 1
  /\ fwdDisabled = FALSE
  /\ discWindow = FALSE
  /\ text = <<>>
  /\ escaped = NotEscaped
  /\ proc = [phase |-> "loading", load |-> "none", boots |-> 0]
  /\ lastSave = Unsettled

Handle(s) ==
  \/ ConnectgpStart(s)
  \/ DisconnectStart(s)
  \/ SaveApply(s)
  \/ SaveReturn(s)
  \/ PhotoStart(s)
  \/ InsertApply(s)
  \/ PhotoResume(s)

NextBoot ==
  \/ Load
  \/ Restart
  \/ (proc.phase = "running" /\ \E s \in Slots : Handle(s))

SpecBoot == InitBoot /\ [][NextBoot]_vars

\* the rows of the receipts table: one per photo, stamped with a sample
\* instant, in any insertion order
RECURSIVE RowsAt(_)
RowsAt(q) ==
  IF q = <<>> THEN <<>>
  ELSE Append(RowsAt(SubSeq(q, 1, Len(q) - 1)),
              [user_id |-> OWNER_ID + 1, receipt_file_id |-> Len(q),
               received_at |-> ToISOString(Instants[q[Len(q)]])])

\* the sample instants of the logs: four local days, 05/01/24 twice
ListInstants == {1, 2, 4, 6, 7}

ReceiptLogs ==
  UNION {{RowsAt(q) : q \in [1..n -> ListInstants]} : n \in 0..MaxRows}

\* the db variant with a receipts log of up to MaxRows rows, listing the dates
InitList ==
  /\ variant = "db"
  /\ connectedGroupId \in Groups
  /\ store = connectedGroupId
  /\ receipts \in ReceiptLogs
  /\ slots = [s \in Slots |-> Idle]
  /\ clock = 1
  /\ nextPhoto = 1
  /\ fwdDisabled = FALSE
  /\ discWindow = FALSE
  /\ text = <<>>
  /\ escaped = NotEscaped
  /\ proc = Launched
  /\ lastSave = Unsettled

NextList ==
  \/ ReceiptStart(SlotOrder[1])
  \/ SelectServe(SlotOrder[1])
  \/ ReceiptResume(SlotOrder[1])

SpecList == InitList /\ [][NextList]_vars

\* escapeMarkdown applied to every text up to MaxLen characters
InitEsc ==
  /\ variant \in EscapingVariants
  /\ connectedGroupId = Null
  /\ store = NoRow
  /\ receipts = <<>>
  /\ slots = [s \in Slots |-> Idle]
  /\ clock = 1
  /\ nextPhoto = 1
  /\ fwdDisabled = FALSE
  /\ discWindow = FALSE
  /\ text \in Texts(MaxLen)
  /\ escaped = NotEscaped
  /\ proc = Launched
  /\ lastSave = Unsettled

NextEsc == Escape(variant)

SpecEsc == InitEsc /\ [][NextEsc]_vars


(***************************************************************************)
(* Properties.                                                             *)
(***************************************************************************)
OwnerGated == {"connectgp", "disconnect", "help", "receipt", "receipt_date"}

Sends(h) == {i \in 1..Len(h.out) : h.out[i].op = "sendPhoto"}
Acks(h) == {i \in 1..Len(h.out) : h.out[i] = Reply("ack")}

\* C1: an owner-gated command invoked by a sender other than the owner ends
\* at once, leaves the connected group, the persisted connection and the
\* receipts log unchanged, and makes no Telegram call at all.
C1_NonOwnerNoEffect ==
  [][\A s \in Slots :
       (/\ slots'[s] # slots[s]
        /\ slots'[s].kind \in OwnerGated
        /\ slots'[s].from # OWNER_ID)
       => /\ UNCHANGED <<connectedGroupId, store, receipts>>
          /\ slots'[s].pc = "done"
          /\ slots'[s].out = <<>>
          /\ ~slots'[s].uncaught]_vars

\* a non-owner's /disconnect has been handled while a group is connected
C1_Witness ==
  \E s \in Slots :
    /\ slots[s].kind = "disconnect"
    /\ slots[s].from # OWNER_ID
    /\ slots[s].pc = "done"
    /\ connectedGroupId \in Groups

\* C2 (as amended): after a save(null) that succeeded, and until a connect
\* command next assigns the connected group, every photo event is answered
\* with the 'not connected' reply only: no insert, no sendPhoto.
C2_DisabledAfterSuccessfulSaveNull ==
  [][\A s \in Slots :
       (/\ fwdDisabled
        /\ Free(s)
        /\ slots'[s] # slots[s]
        /\ slots'[s].kind = "photo")
       => /\ slots'[s].pc = "done"
          /\ slots'[s].out = <<Reply("not_connected")>>
          /\ UNCHANGED receipts]_vars

\* a photo was refused after a successful disconnect, while the next
\* connect has its write applied by the store but has not returned yet
C2_Witness ==
  /\ fwdDisabled
  /\ store \in Groups
  /\ \E s \in Slots :
       /\ slots[s].kind = "photo"
       /\ slots[s].pc = "done"
       /\ slots[s].out = <<Reply("not_connected")>>

\* C2 (as claimed): after the owner's disconnect command has returned from
\* save(null), whatever its result, and until the next connect command calls
\* save(groupId), every photo event is answered with 'not connected' only.
C2_DisabledAfterAnySaveNull ==
  [][\A s \in Slots :
       (/\ discWindow
        /\ Free(s)
        /\ slots'[s] # slots[s]
        /\ slots'[s].kind = "photo")
       => /\ slots'[s].pc = "done"
          /\ slots'[s].out = <<Reply("not_connected")>>]_vars

\* C3: every sendPhoto a photo handler issues goes to a non-null group, the
\* one its own connected check observed.
C3_SendPhotoToObservedGroup ==
  \A s \in Slots :
    slots[s].kind = "photo" =>
      \A i \in Sends(slots[s]) :
        /\ slots[s].out[i].to # Null
        /\ slots[s].out[i].to = slots[s].obs

\* C4: in the db variant a failed receipt insert is answered with the error
\* reply and nothing else (no sendPhoto, no acknowledgement), and every
\* forwarded photo has its receipt row stored.
C4_InsertFailureAbortsForwarding ==
  \A s \in Slots :
    (variant = "db" /\ slots[s].kind = "photo") =>
      /\ slots[s].ins = "failed" =>
           /\ slots[s].pc = "done"
           /\ slots[s].out = <<Reply("insert_error")>>
      /\ Sends(slots[s]) # {} =>
           /\ slots[s].ins = "stored"
           /\ \E i \in 1..Len(receipts) :
                receipts[i].receipt_file_id = slots[s].photo
      /\ Acks(slots[s]) # {} => slots[s].ins = "stored"

\* a photo handler of the db variant has ended on a failed insert
C4_Witness ==
  \E s \in Slots :
    /\ variant = "db"
    /\ slots[s].kind = "photo"
    /\ slots[s].ins = "failed"
    /\ slots[s].pc = "done"
    /\ connectedGroupId \in Groups

\* C5: when saveConnection (db) returns, it returns false and has not
\* touched connectedGroupId if the write failed, and returns true with
\* connectedGroupId equal to its argument if the write succeeded.
C5_SaveConnectionResult ==
  [][\A s \in Slots :
       (/\ variant = "db"
        /\ slots[s].pc \in {"save_sent", "save_applied"}
        /\ slots'[s].pc = "done")
       => \/ /\ slots'[s].success = "false"
             /\ connectedGroupId' = connectedGroupId
             /\ slots'[s].out[1].tag \in {"save_failed", "disconnect_failed"}
          \/ /\ slots'[s].success = "true"
             /\ slots[s].pc = "save_applied"
             /\ connectedGroupId' = slots[s].arg
             /\ slots'[s].out[1].tag \in {"connected", "disconnected"}]_vars

\* a save has failed and left a different connected group in memory
C5_Witness ==
  \E s \in Slots :
    /\ variant = "db"
    /\ slots[s].kind \in {"connectgp", "disconnect"}
    /\ slots[s].pc = "done"
    /\ slots[s].success = "false"
    /\ connectedGroupId # slots[s].arg

\* C6: a photo handler sends the acknowledgement only after it has issued
\* the sendPhoto to the group.
C6_AckAfterForward ==
  \A s \in Slots :
    slots[s].kind = "photo" =>
      \A i \in Acks(slots[s]) : \E j \in Sends(slots[s]) : j < i

\* C10: no handler ends with an error that left it uncaught.
C10_NoUncaughtError == \A s \in Slots : ~slots[s].uncaught


\* C12: when the sendPhoto of a photo event fails after its receipt was
\* stored, the handler ends there: that one sendPhoto is the only call it
\* made (no second sendPhoto, no acknowledgement, no error reply), no error
\* leaves the handler, and the receipt row is still stored; no photo event
\* ever issues more than one sendPhoto.
C12_ForwardFailureNotRetried ==
  \A s \in Slots :
    slots[s].kind = "photo" =>
      /\ Cardinality(Sends(slots[s])) <= 1
      /\ slots[s].fwd = "failed" =>
           /\ slots[s].pc = "done"
           /\ ~slots[s].uncaught
           /\ slots[s].ins = "stored"
           /\ Len(slots[s].out) = 1
           /\ slots[s].out[1].op = "sendPhoto"
           /\ ReceiptRow(slots[s]) \in Range(receipts)

\* a forward has failed after the receipt was stored
C12_Witness ==
  \E s \in Slots :
    /\ slots[s].kind = "photo"
    /\ slots[s].fwd = "failed"
    /\ slots[s].ins = "stored"
    /\ Len(receipts) >= 1

\* C14: every step leaves the receipts log as it is or appends one row to
\* it, the row of a photo event whose connected check found a group and
\* whose insert the store applies in that step; a photo whose insert
\* succeeded has exactly one row and no photo has two rows; a photo event that finds no group
\* connected ends at once with the 'not connected' reply, having stored
\* nothing and sent nothing to any group.
C14_ReceiptsAppendOnlyGated ==
  [][/\ \/ receipts' = receipts
        \/ \E s \in Slots :
             /\ slots[s].kind = "photo"
             /\ slots[s].pc = "insert"
             /\ slots'[s].pc = "insert_applied"
             /\ slots[s].obs \in Groups
             /\ receipts' = Append(receipts, ReceiptRow(slots[s]))
     /\ \A s \in Slots :
          slots'[s].ins = "stored"
            => Cardinality({i \in 1..Len(receipts') :
                              receipts'[i] = ReceiptRow(slots'[s])}) = 1
     /\ \A i, j \in 1..Len(receipts') :
          receipts'[i].receipt_file_id = receipts'[j].receipt_file_id => i = j
     /\ \A s \in Slots :
          (/\ Free(s)
           /\ slots'[s] # slots[s]
           /\ slots'[s].kind = "photo"
           /\ NotConnected(connectedGroupId))
          => /\ receipts' = receipts
             /\ slots'[s].pc = "done"
             /\ slots'[s].ins = "none"
             /\ slots'[s].out = <<Reply("not_connected")>>]_vars

\* a photo was refused for want of a connected group while the log holds
\* the receipt of an earlier photo
C14_Witness ==
  /\ Len(receipts) = 1
  /\ connectedGroupId = Null
  /\ \E s \in Slots :
       /\ slots[s].kind = "photo"
       /\ slots[s].photo = 2
       /\ slots[s].obs = Null
       /\ slots[s].out = <<Reply("not_connected")>>

\* the connected group the persistent store holds: none without a row or
\* file, none in a file that cannot be read
PersistedGroup == IF store \in {NoRow, Null, Unreadable} THEN Null ELSE store

\* C15: in the variants that persist the connection, whenever no save is in
\* flight the in-memory connected group equals the connection the store holds.
C15_MemoryEqualsStore ==
  (variant \in PersistingVariants /\ ~SaveInFlight)
    => connectedGroupId = PersistedGroup

(***************************************************************************)
(* Properties of the date listing and the date detail (SpecDates).         *)
(***************************************************************************)
\* the rows a select issued when n rows were stored could read
Stored(n) == SubSeq(receipts, 1, n)

InstantOfRow(r) == MomentParse(r.received_at)

\* the instant lies on the Asia/Yangon calendar day written DD/MM/YY in key
OnLocalDay(t, key) ==
  LET midnight == UtcInstant(2000 + key[3], key[2], key[1], 0, 0, 0, 0) - TzOffsetMs
  IN  midnight <= t /\ t < midnight + MsPerDay

\* the number of the Asia/Yangon calendar day an instant lies on
LocalDayNumber(t) == (t + TzOffsetMs) \div MsPerDay

\* C7: the date-detail query for day label D returns exactly the stored
\* receipts whose Asia/Yangon calendar day is D, first and last instant of
\* the day included, in ascending received_at order, and replays them in
\* that order.
C7_DateDetailExact ==
  \A s \in Slots :
    (slots[s].kind = "receipt_date" /\ slots[s].success = "true") =>
      LET h    == slots[s]
          seen == Stored(h.seen)
          want == {i \in 1..Len(seen) : OnLocalDay(InstantOfRow(seen[i]), h.date)}
      IN  /\ Range(h.rows) = {seen[i] : i \in want}
          /\ Len(h.rows) = Cardinality(want)
          /\ \A i, j \in 1..Len(h.rows) :
               i < j => InstantOfRow(h.rows[i]) <= InstantOfRow(h.rows[j])
          /\ \A i \in 1..Len(h.out) :
               h.out[i].op = "replyWithPhoto" =>
                 h.out[i].photo = h.rows[i - 2].receipt_file_id

\* the detail of 05/01/24 replayed a receipt of the first instant and one of
\* the last instant of that day, stored in the opposite order
C7_Witness ==
  \E s \in Slots :
    /\ slots[s].kind = "receipt_date"
    /\ slots[s].success = "true"
    /\ slots[s].date = <<5, 1, 24>>
    /\ Len(slots[s].rows) = 2
    /\ InstantOfRow(slots[s].rows[1]) = UtcInstant(2024, 1, 4, 17, 30, 0, 0)
    /\ InstantOfRow(slots[s].rows[2]) = UtcInstant(2024, 1, 5, 17, 29, 59, 999)
    /\ receipts[1] = slots[s].rows[2]
    /\ Len(slots[s].out) = 4

\* C8: the date bucket key of a stored receipt is the DD/MM/YY of the
\* Asia/Yangon calendar day of received_at, whatever its UTC day; 10:00 on
\* 2024-01-05 local gives 05/01/24; two receipts share a key exactly when
\* they lie on the same local calendar day.
C8_BucketKeyIsLocalDay ==
  /\ \A i \in 1..Len(receipts) :
       /\ OnLocalDay(InstantOfRow(receipts[i]), DateKeyOf(receipts[i]))
       /\ receipts[i].received_at = <<2024, 1, 5, 3, 30, 0, 0>>
            => DateKeyOf(receipts[i]) = <<5, 1, 24>>
  /\ \A i, j \in 1..Len(receipts) :
       DateKeyOf(receipts[i]) = DateKeyOf(receipts[j])
         <=> LocalDayNumber(InstantOfRow(receipts[i]))
               = LocalDayNumber(InstantOfRow(receipts[j]))
  /\ \A s \in Slots :
       slots[s].kind = "receipt" =>
         \A i \in 1..slots[s].seen :
           slots[s].keys # <<>> => DateKeyOf(receipts[i]) \in Range(slots[s].keys)

\* the listing shows 05/01/24 once for two receipts stored on different UTC
\* days, one of them at 10:00 local on 2024-01-05
C8_Witness ==
  \E s \in Slots :
    /\ slots[s].kind = "receipt"
    /\ slots[s].keys = << <<5, 1, 24>> >>
    /\ slots[s].seen = 2
    /\ receipts[1].received_at = <<2024, 1, 4, 17, 30, 0, 0>>
    /\ receipts[2].received_at = <<2024, 1, 5, 3, 30, 0, 0>>

(***************************************************************************)
(* Property of the keyboard of the date listing (SpecList).                *)
(***************************************************************************)
RECURSIVE Flatten(_)
Flatten(rows) ==
  IF rows = <<>> THEN <<>> ELSE Head(rows) \o Flatten(Tail(rows))

\* the first stored row that lies on the local day written in key
FirstOn(key) ==
  CHOOSE i \in 1..Len(receipts) :
    /\ OnLocalDay(InstantOfRow(receipts[i]), key)
    /\ \A j \in 1..(i - 1) : ~OnLocalDay(InstantOfRow(receipts[j]), key)

LocalDays == {LocalDayNumber(InstantOfRow(receipts[i])) : i \in 1..Len(receipts)}

\* C13: a date listing that read the receipts either failed, or, with no
\* receipt stored, sent the 'no receipts' reply and no keyboard, or sent a
\* keyboard whose buttons, read row by row, name every local calendar day
\* of the stored receipts exactly once, in the order the days first occur,
\* in rows of exactly 3 buttons but for a last row of 1 to 3.
C13_KeyboardOnePerDay ==
  \A s \in Slots :
    (slots[s].kind = "receipt" /\ slots[s].pc = "done" /\ slots[s].from = OWNER_ID) =>
      LET h   == slots[s]
          kbd == h.kbd
          btn == Flatten(kbd)
      IN  \/ Reply("receipt_error") \in Range(h.out)
          \/ /\ receipts = <<>>
             /\ h.out = <<Reply("no_receipts")>>
             /\ kbd = <<>>
          \/ /\ receipts # <<>>
             /\ h.out = <<Reply("keyboard")>>
             /\ Len(btn) = Cardinality(LocalDays)
             /\ \A i \in 1..Len(receipts) :
                  \E b \in 1..Len(btn) : OnLocalDay(InstantOfRow(receipts[i]), btn[b])
             /\ \A a, b \in 1..Len(btn) :
                  a < b => /\ btn[a] # btn[b]
                           /\ FirstOn(btn[a]) < FirstOn(btn[b])
             /\ \A i \in 1..Len(kbd) :
                  /\ Len(kbd[i]) \in 1..3
                  /\ i < Len(kbd) => Len(kbd[i]) = 3

\* four receipts of four different days: a keyboard of a full row and a row of one
C13_Witness ==
  \E s \in Slots :
    /\ slots[s].kind = "receipt"
    /\ Len(receipts) = 4
    /\ Len(slots[s].kbd) = 2
    /\ Len(slots[s].kbd[1]) = 3
    /\ Len(slots[s].kbd[2]) = 1
    /\ slots[s].out = <<Reply("keyboard")>>

(***************************************************************************)
(* Property of escapeMarkdown (SpecEsc).                                   *)
(***************************************************************************)
\* the characters Telegram's MarkdownV2 reserves, and the backslash
MarkdownV2Reserved ==
  {"_", "*", "[", "]", "(", ")", "~", Backtick, ">", "#", "+", "-", "=", "|",
   "{", "}", ".", "!", "\\"}

RECURSIVE NoUnescapedReserved(_)
\* reading left to right, a backslash escapes the character after it; no
\* reserved character stands outside such a pair
NoUnescapedReserved(t) ==
  IF t = <<>> THEN TRUE
  ELSE IF Head(t) = "\\" THEN Len(t) >= 2 /\ NoUnescapedReserved(Tail(Tail(t)))
  ELSE Head(t) \notin MarkdownV2Reserved /\ NoUnescapedReserved(Tail(t))

\* C9: the output of escapeMarkdown, in every variant that has it, contains
\* no unescaped MarkdownV2 reserved character.
C9_EscapedOutputSafe == escaped.called => NoUnescapedReserved(escaped.out)

(***************************************************************************)
(* Properties of startup and restart (SpecBoot).                           *)
(***************************************************************************)
\* C11: a failing read of the persisted connection at startup never keeps
\* the bot from launching: the process does not end in the load.
C11_LoadFailureStillLaunches == proc.phase # "crashed"

\* the last save ran alone, succeeded, and the process restarted after it;
\* the load of the restarted process read the store
SurvivedRestart ==
  /\ proc.phase = "running"
  /\ proc.load = "ok"
  /\ lastSave.val \in Groups \cup {Null}
  /\ lastSave.boot < proc.boots

\* C16: in the persisting variants, after a successful connect to g, a
\* restart and a load that read the store, the connected group is g and
\* photos pass the connected check and are sent to g; after a successful
\* disconnect, a restart and a load, the connected group is unset and every
\* photo gets the 'not connected' reply only.
C16_ConnectionSurvivesRestart ==
  SurvivedRestart =>
    /\ connectedGroupId = lastSave.val
    /\ store = lastSave.val
    /\ \A s \in Slots :
         slots[s].kind = "photo" =>
           IF lastSave.val \in Groups
           THEN /\ slots[s].obs = lastSave.val
                /\ Reply("not_connected") \notin Range(slots[s].out)
                /\ \A i \in Sends(slots[s]) : slots[s].out[i].to = lastSave.val
                /\ slots[s].ins = "stored" => Sends(slots[s]) # {}
           ELSE /\ slots[s].pc = "done"
                /\ slots[s].out = <<Reply("not_connected")>>

\* after connect, restart and load a photo has been sent to the group
C16_Witness ==
  /\ SurvivedRestart
  /\ lastSave.val \in Groups
  /\ \E s \in Slots :
       /\ slots[s].kind = "photo"
       /\ Sends(slots[s]) # {}

====
